---- MODULE Spec2Model ----
(***************************************************************************)
(* Model of create_sql_db_xml.py / create_sql_db_user_dirs.py (UHH2-utils). *)
(*                                                                         *)
(* Python strings are modelled as sequences of one-character strings, so   *)
(* that substring tests, splitting, os.path.normpath, os.path.dirname and  *)
(* the regular expressions are computed the way the code computes them.    *)
(***************************************************************************)
EXTENDS Integers, Sequences, FiniteSets, TLC

(***************************************************************************)
(* Bounds of the model.                                                    *)
(***************************************************************************)
\* number of "/"-separated segments of an enumerated path
MaxSegs == 5
\* number of lines of an enumerated descriptor body
MaxLines == 3
\* number of descriptor files under the scan root
MaxXml == 2
\* number of descriptors in the throttling run
MaxThrottleXml == 3
MaxBranches == 2

(***************************************************************************)
(* String literals used by the code and by the enumerated inputs.          *)
(***************************************************************************)
S_empty == << >>
S_slash == <<"/">>
S_dot == <<".">>
S_dotdot == <<".", ".">>
S_user == <<"u", "s", "e", "r">>
S_group == <<"g", "r", "o", "u", "p">>
S_slash_user_slash == <<"/", "u", "s", "e", "r", "/">>
S_slash_group_slash == <<"/", "g", "r", "o", "u", "p", "/">>
S_slash_user == <<"/", "u", "s", "e", "r">>
S_slash_group == <<"/", "g", "r", "o", "u", "p">>
S_alice == <<"a", "l", "i", "c", "e">>
S_bob == <<"b", "o", "b">>
S_store == <<"s", "t", "o", "r", "e">>
S_job == <<"j", "o", "b">>
S_slash_job == <<"/", "j", "o", "b">>
S_0000 == <<"0", "0", "0", "0">>
S_0001 == <<"0", "0", "0", "1">>
S_123 == <<"1", "2", "3">>
S_12345 == <<"1", "2", "3", "4", "5">>
S_RunII_ == <<"R", "u", "n", "I", "I", "_">>
S_RunII_foo == <<"R", "u", "n", "I", "I", "_", "f", "o", "o">>
S_RunII_102X_v1 == <<"R", "u", "n", "I", "I", "_", "1", "0", "2", "X", "_", "v", "1">>
S_MC_94X_v1 == <<"M", "C", "_", "9", "4", "X", "_", "v", "1">>
S_2017v2 == <<"2", "0", "1", "7", "v", "2">>
S_2019 == <<"2", "0", "1", "9">>
S_16 == <<"1", "6">>
S_17 == <<"1", "7">>
S_18 == <<"1", "8">>
S_X_ == <<"X", "_">>
S_dot_xml == <<".", "x", "m", "l">>
S_a_xml == <<"a", ".", "x", "m", "l">>
S_bar_xml == <<"b", "a", "r", ".", "x", "m", "l">>
S_f1_root == <<"f", "1", ".", "r", "o", "o", "t">>
S_f2_root == <<"f", "2", ".", "r", "o", "o", "t">>
S_minus1 == <<"-", "1">>
S_comment_open == <<"<", "!", "-", "-">>
S_comment_close == <<"-", "-", ">">>
S_In_open == <<"<", "I", "n", " ", "F", "i", "l", "e", "N", "a", "m", "e", "=", "\"">>
S_In_open_sp == <<"<", " ", "I", "n", " ", "F", "i", "l", "e", "N", "a", "m", "e", "=", "\"">>
S_Lumi_close == <<"\"", " ", "L", "u", "m", "i", "=", "\"", "0", ".", "0", "\"", "/", ">">>
S_Lumi_close_sp == <<"\"", " ", "L", "u", "m", "i", "=", "\"", "0", ".", "0", "\"", " ", "/", ">">>
S_Lumi1_close == <<"\"", " ", "L", "u", "m", "i", "=", "\"", "1", ".", "0", "\"", "/", ">">>
S_c_xml == <<"c", ".", "x", "m", "l">>
S_b_xml == <<"b", ".", "x", "m", "l">>
S_readme_txt == <<"r", "e", "a", "d", "m", "e", ".", "t", "x", "t">>
S_ctime == <<"2", "0", "2", "0", "-", "0", "1", "-", "0", "2", " ", "0", "3", ":", "0", "4", ":", "0", "5">>
S_note == <<"n", "o", "t", "e">>
S_space == <<" ">>
S_newline == <<"\n">>

Digits == {"0", "1", "2", "3", "4", "5", "6", "7", "8", "9"}

(***************************************************************************)
(* Python str primitives.                                                  *)
(***************************************************************************)
\* s[i:] starts with sub (i is 1-based)
IsPrefixAt(s, sub, i) ==
    /\ i >= 1
    /\ i + Len(sub) - 1 <= Len(s)
    /\ \A k \in 1..Len(sub) : s[i + k - 1] = sub[k]

\* sub in s
Contains(s, sub) == \E i \in 1..(Len(s) - Len(sub) + 1) : IsPrefixAt(s, sub, i)

\* s.startswith(sub)
StartsWith(s, sub) == IsPrefixAt(s, sub, 1)

\* s.endswith(sub)
EndsWith(s, sub) == Len(sub) <= Len(s) /\ IsPrefixAt(s, sub, Len(s) - Len(sub) + 1)

\* s.split("/"): always at least one part, empty parts kept
RECURSIVE Split(_)
Split(s) ==
    IF \A i \in 1..Len(s) : s[i] # "/"
    THEN <<s>>
    ELSE LET i == CHOOSE k \in 1..Len(s) : s[k] = "/" /\ \A j \in 1..(k - 1) : s[j] # "/"
         IN  <<SubSeq(s, 1, i - 1)>> \o Split(SubSeq(s, i + 1, Len(s)))

\* seq[-1]
Last(seq) == seq[Len(seq)]

\* "/".join(parts)
RECURSIVE Join(_)
Join(parts) ==
    IF Len(parts) = 0 THEN S_empty
    ELSE IF Len(parts) = 1 THEN parts[1]
    ELSE parts[1] \o S_slash \o Join(Tail(parts))

\* parts.index(x), 1-based; 0 stands for the ValueError of a missing element
Index(parts, x) ==
    IF \E i \in 1..Len(parts) : parts[i] = x
    THEN CHOOSE i \in 1..Len(parts) : parts[i] = x /\ \A j \in 1..(i - 1) : parts[j] # x
    ELSE 0

\* number of leading "/" that os.path.normpath keeps: 0, 1, or 2 (exactly two)
InitialSlashes(path) ==
    IF ~StartsWith(path, S_slash) THEN 0
    ELSE IF StartsWith(path, <<"/", "/">>) /\ ~StartsWith(path, <<"/", "/", "/">>) THEN 2
    ELSE 1

\* the component loop of os.path.normpath
RECURSIVE NormComps(_, _, _)
NormComps(comps, new_comps, initial_slashes) ==
    IF Len(comps) = 0 THEN new_comps
    ELSE LET comp == Head(comps)
             rest == Tail(comps)
         IN  IF comp = S_empty \/ comp = S_dot
             THEN NormComps(rest, new_comps, initial_slashes)
             ELSE IF \/ comp # S_dotdot
                     \/ (initial_slashes = 0 /\ Len(new_comps) = 0)
                     \/ (Len(new_comps) > 0 /\ new_comps[Len(new_comps)] = S_dotdot)
             THEN NormComps(rest, Append(new_comps, comp), initial_slashes)
             ELSE IF Len(new_comps) > 0
             THEN NormComps(rest, SubSeq(new_comps, 1, Len(new_comps) - 1), initial_slashes)
             ELSE NormComps(rest, new_comps, initial_slashes)

\* os.path.normpath(path) (posixpath)
NormPath(path) ==
    IF Len(path) = 0 THEN S_dot
    ELSE LET n == InitialSlashes(path)
             joined == Join(NormComps(Split(path), << >>, n))
             out == [i \in 1..n |-> "/"] \o joined
         IN  IF Len(out) = 0 THEN S_dot ELSE out

\* s.rstrip("/")
RECURSIVE RStripSlash(_)
RStripSlash(s) ==
    IF Len(s) > 0 /\ s[Len(s)] = "/" THEN RStripSlash(SubSeq(s, 1, Len(s) - 1)) ELSE s

\* os.path.dirname(p) (posixpath)
Dirname(p) ==
    LET slashes == {i \in 1..Len(p) : p[i] = "/"}
        i == IF slashes = {} THEN 0 ELSE CHOOSE k \in slashes : \A j \in slashes : j <= k
        head == SubSeq(p, 1, i)
    IN  IF Len(head) > 0 /\ (\E k \in 1..Len(head) : head[k] # "/")
        THEN RStripSlash(head)
        ELSE head

(***************************************************************************)
(* Values a Python call can produce: a str, None, or a raised exception.   *)
(***************************************************************************)
None == [kind |-> "None", val |-> S_empty]
Str(s) == [kind |-> "str", val |-> s]
Raised(exc) == [kind |-> exc, val |-> S_empty]

(***************************************************************************)
(* PathConventionResolver: get_dir_user, get_year_from_path,               *)
(* get_branch_from_path.                                                   *)
(***************************************************************************)
\* ind = parts.index(marker); None when it is the last part, else parts[ind+1]
AfterMarker(parts, marker) ==
    LET ind == Index(parts, marker)
    IN  IF ind = 0 THEN Raised("ValueError")
        ELSE IF ind = Len(parts) THEN None
        ELSE Str(parts[ind + 1])

\* variant: "group" is looked for before "user"
GetDirUser_GroupFirst(ntuple_dir) ==
    IF ~Contains(ntuple_dir, S_slash_user_slash) /\ ~Contains(ntuple_dir, S_slash_group_slash)
    THEN None
    ELSE LET normed == NormPath(ntuple_dir)
             parts == Split(normed)
         IN  IF Contains(normed, S_slash_group_slash) THEN AfterMarker(parts, S_group)
             ELSE IF Contains(normed, S_slash_user_slash) THEN AfterMarker(parts, S_user)
             ELSE None

\* variant: the two later "in" tests read the path as given, the split reads
\* the normalized path
GetDirUser_RawPathTested(ntuple_dir) ==
    IF ~Contains(ntuple_dir, S_slash_user_slash) /\ ~Contains(ntuple_dir, S_slash_group_slash)
    THEN None
    ELSE LET parts == Split(NormPath(ntuple_dir))
         IN  IF Contains(ntuple_dir, S_slash_user_slash) THEN AfterMarker(parts, S_user)
             ELSE IF Contains(ntuple_dir, S_slash_group_slash) THEN AfterMarker(parts, S_group)
             ELSE None

\* get_dir_user(ntuple_dir); the name ntuple_dir is rebound to the normalized
\* path at line 314, so the two later "in" tests read the normalized path, and
\* falling off the if/elif returns None
GetDirUser(ntuple_dir) ==
    IF ~Contains(ntuple_dir, S_slash_user_slash) /\ ~Contains(ntuple_dir, S_slash_group_slash)
    THEN None
    ELSE LET normed == NormPath(ntuple_dir)
             parts == Split(normed)
         IN  IF Contains(normed, S_slash_user_slash) THEN AfterMarker(parts, S_user)
             ELSE IF Contains(normed, S_slash_group_slash) THEN AfterMarker(parts, S_group)
             ELSE None

\* _is_year(s)
IsYear(s) ==
    /\ (Contains(s, S_16) \/ Contains(s, S_17) \/ Contains(s, S_18))
    /\ ~Contains(s, S_dot_xml)

\* first part satisfying _is_year, for the fallback loop
FirstYearPart(parts) ==
    IF \E i \in 1..Len(parts) : IsYear(parts[i])
    THEN Str(parts[CHOOSE i \in 1..Len(parts) :
                       IsYear(parts[i]) /\ \A j \in 1..(i - 1) : ~IsYear(parts[j])])
    ELSE None

\* variant: the candidate is rejected when it is the final part
GetYearFromPath_RejectFinal(path) ==
    LET parts == Split(path)
        hits == {i \in 1..Len(parts) : Contains(parts[i], S_RunII_)}
    IN  IF hits # {}
        THEN LET first == CHOOSE i \in hits : \A j \in hits : i <= j
                 ind == Index(parts, parts[first])
             IN  IF ind >= Len(parts) - 1 THEN None
                 ELSE IF IsYear(parts[ind + 1]) THEN Str(parts[ind + 1]) ELSE None
        ELSE FirstYearPart(parts)

\* get_year_from_path(path)
GetYearFromPath(path) ==
    LET parts == Split(path)
        hits == {i \in 1..Len(parts) : Contains(parts[i], S_RunII_)}
    IN  IF hits # {}
        THEN LET first == CHOOSE i \in hits : \A j \in hits : i <= j
                 ind == Index(parts, parts[first])
             IN  IF ind = Len(parts) THEN None
                 ELSE IF IsYear(parts[ind + 1]) THEN Str(parts[ind + 1]) ELSE None
        ELSE FirstYearPart(parts)

\* re.search(r"[0-9]+X_", p)
MatchesBranchPattern2(p) ==
    \E i \in 1..Len(p) : p[i] \in Digits /\ IsPrefixAt(p, S_X_, i + 1)

\* get_branch_from_path(path)
GetBranchFromPath(path) ==
    LET parts == Split(path)
        ok(p) == (Contains(p, S_RunII_) \/ MatchesBranchPattern2(p)) /\ ~Contains(p, S_dot_xml)
    IN  IF \E i \in 1..Len(parts) : ok(parts[i])
        THEN Str(parts[CHOOSE i \in 1..Len(parts) :
                           ok(parts[i]) /\ \A j \in 1..(i - 1) : ~ok(parts[j])])
        ELSE None

(***************************************************************************)
(* DirectoryNormalizer: the body of the loop of get_ntuple_dirs_from_xml.  *)
(***************************************************************************)
\* re.match(r"^[0-9]{4}$", s)
IsFourDigits(s) == Len(s) = 4 /\ \A i \in 1..4 : s[i] \in Digits

\* variant: any all-digit final segment is dropped
NormalizeDir_AnyDigits(dir) ==
    LET dir_name == NormPath(dir)
        parts == Split(dir_name)
        last == parts[Len(parts)]
    IN  IF Len(last) > 0 /\ \A i \in 1..Len(last) : last[i] \in Digits
        THEN Join(SubSeq(parts, 1, Len(parts) - 1))
        ELSE dir_name

\* dir_name = normpath(dir); drop the final part when it is exactly 4 digits
NormalizeDir(dir) ==
    LET dir_name == NormPath(dir)
        parts == Split(dir_name)
    IN  IF IsFourDigits(parts[Len(parts)])
        THEN Join(SubSeq(parts, 1, Len(parts) - 1))
        ELSE dir_name

\* the directory recorded for one referenced file
\* variant that keeps the shard segment
NtupleDirOf_ShardKept(ntuple_fname) == Dirname(ntuple_fname)

NtupleDirOf(ntuple_fname) == NormalizeDir(Dirname(ntuple_fname))

(***************************************************************************)
(* DescriptorScanner: get_ntuple_filenames_from_xml.                       *)
(***************************************************************************)
Whitespace == {" ", "\n", "\t"}

\* s.strip()
RECURSIVE Strip(_)
Strip(s) ==
    IF Len(s) > 0 /\ s[1] \in Whitespace THEN Strip(Tail(s))
    ELSE IF Len(s) > 0 /\ s[Len(s)] \in Whitespace THEN Strip(SubSeq(s, 1, Len(s) - 1))
    ELSE s

\* length of the text '< ?In FileName="' matched at position i, 0 when it does not match
FnamePrefixLen(s, i) ==
    IF IsPrefixAt(s, S_In_open, i) THEN Len(S_In_open)
    ELSE IF IsPrefixAt(s, S_In_open_sp, i) THEN Len(S_In_open_sp)
    ELSE 0

\* positions j where '" Lumi="0\.0" ?\/>' matches after a non-empty capture
\* that starts right after the prefix at i ("." does not match a newline)
FnameEnds(s, i) ==
    IF FnamePrefixLen(s, i) = 0 THEN {}
    ELSE {j \in (i + FnamePrefixLen(s, i) + 1)..Len(s) :
            /\ (IsPrefixAt(s, S_Lumi_close, j) \/ IsPrefixAt(s, S_Lumi_close_sp, j))
            /\ \A k \in (i + FnamePrefixLen(s, i))..(j - 1) : s[k] # "\n"}

\* re.search(fname_pattern, s): group(1) of the leftmost match, with the
\* greedy (.+) taking the longest capture; None when nothing matches
SearchFname(s) ==
    LET starts == {i \in 1..Len(s) : FnameEnds(s, i) # {}}
    IN  IF starts = {} THEN None
        ELSE LET i == CHOOSE a \in starts : \A b \in starts : a <= b
                 j == CHOOSE a \in FnameEnds(s, i) : \A b \in FnameEnds(s, i) : b <= a
             IN  Str(SubSeq(s, i + FnamePrefixLen(s, i), j - 1))

\* variant: the line that closes a comment is matched like any other line
ScanLine_CloseNotSkipped(is_comment, raw_line) ==
    LET line == Strip(raw_line)
        opened == StartsWith(line, S_comment_open) \/ is_comment
    IN  IF EndsWith(line, S_comment_close)
        THEN [is_comment |-> FALSE, fname |-> SearchFname(Strip(line))]
        ELSE IF opened
        THEN [is_comment |-> TRUE, fname |-> None]
        ELSE [is_comment |-> FALSE, fname |-> SearchFname(Strip(line))]

\* variant: the whole stripped line is yielded in place of match.group(1)
ScanLine_WholeLineYielded(is_comment, raw_line) ==
    LET line == Strip(raw_line)
        opened == StartsWith(line, S_comment_open) \/ is_comment
    IN  IF EndsWith(line, S_comment_close)
        THEN [is_comment |-> FALSE, fname |-> None]
        ELSE IF opened
        THEN [is_comment |-> TRUE, fname |-> None]
        ELSE [is_comment |-> FALSE,
              fname |-> IF SearchFname(Strip(line)) = None THEN None ELSE Str(line)]

\* one pass of the loop body over a line: the new flag, and the filename
\* yielded (None when the line is skipped)
ScanLine(is_comment, raw_line) ==
    LET line == Strip(raw_line)
        opened == StartsWith(line, S_comment_open) \/ is_comment
    IN  IF EndsWith(line, S_comment_close)
        THEN [is_comment |-> FALSE, fname |-> None]
        ELSE IF opened
        THEN [is_comment |-> TRUE, fname |-> None]
        ELSE [is_comment |-> FALSE, fname |-> SearchFname(Strip(line))]

\* the filenames get_ntuple_filenames_from_xml yields for a whole file
RECURSIVE NtupleFilenamesFrom(_, _)
NtupleFilenamesFrom(is_comment, lines) ==
    IF Len(lines) = 0 THEN << >>
    ELSE LET step == ScanLine(is_comment, Head(lines))
             rest == NtupleFilenamesFrom(step.is_comment, Tail(lines))
         IN  IF step.fname = None THEN rest ELSE <<step.fname.val>> \o rest

NtupleFilenames(lines) == NtupleFilenamesFrom(FALSE, lines)

(***************************************************************************)
(* TableRowGenerator: the pure parts of the two generators.                *)
(***************************************************************************)
\* os.path.splitext(filename)[1]: from the last dot, unless only dots precede it
SplitExt(filename) ==
    LET dots == {i \in 1..Len(filename) : filename[i] = "."}
        seps == {i \in 1..Len(filename) : filename[i] = "/"}
        dotIndex == IF dots = {} THEN 0 ELSE CHOOSE i \in dots : \A j \in dots : j <= i
        sepIndex == IF seps = {} THEN 0 ELSE CHOOSE i \in seps : \A j \in seps : j <= i
    IN  IF dotIndex > sepIndex
           /\ \E k \in (sepIndex + 1)..(dotIndex - 1) : filename[k] # "."
        THEN SubSeq(filename, dotIndex, Len(filename))
        ELSE S_empty

\* get_xml_filenames: the files of the walk whose extension is ".xml", in walk
\* order, as paths relative to top_dir
RECURSIVE GetXmlFilenames(_)
GetXmlFilenames(files) ==
    IF Len(files) = 0 THEN << >>
    ELSE IF SplitExt(Last(Split(Head(files).path))) # S_dot_xml
    THEN GetXmlFilenames(Tail(files))
    ELSE <<Head(files).path>> \o GetXmlFilenames(Tail(files))

\* variant: an unresolved year or branch is stored as None
GetXmlData_NoneKept(xml_path, git_source) ==
    LET path == NormPath(xml_path)
    IN  [filepath |-> xml_path,
         year |-> GetYearFromPath(path),
         branch |-> GetBranchFromPath(path),
         git_src |-> git_source]

\* get_xml_data(xml_path)
GetXmlData(xml_path, git_source) ==
    LET path == NormPath(xml_path)
        year == GetYearFromPath(path)
        branch == GetBranchFromPath(path)
    IN  [filepath |-> xml_path,
         year |-> IF year = None THEN Str(S_empty) ELSE year,
         branch |-> IF branch = None THEN Str(S_empty) ELSE branch,
         git_src |-> git_source]

\* every order in which a set can be listed
ListsOf(S) == {f \in [1..Cardinality(S) -> S] : \A i, j \in 1..Cardinality(S) : f[i] = f[j] => i = j}

\* variant: the directories are collected in a list, one entry per reference
DirLists_NoDedup(lines) ==
    LET fnames == NtupleFilenames(lines)
    IN  {[i \in 1..Len(fnames) |-> NtupleDirOf(fnames[i])]}

\* get_ntuple_dirs_from_xml: list(dirs) of the set of directories; the order
\* of list(set) is not fixed, so every order is a possible return value
DirLists(lines) ==
    LET fnames == NtupleFilenames(lines)
    IN  ListsOf({NtupleDirOf(fnames[i]) : i \in 1..Len(fnames)})

\* variant: the size walk and the timestamp read run whether or not the
\* directory exists (os.walk of a missing directory yields nothing)
GetNtupleDirData_NoIsdirTest(ntuple_dir, isdir, size, ctime) ==
    [raised |-> GetDirUser(ntuple_dir).kind = "ValueError",
     calls |-> <<"get_dir_user", "get_size", "get_creation_time">>,
     data |-> [ntuple_dir |-> ntuple_dir,
               size |-> IF isdir THEN size ELSE 0,
               user |-> GetDirUser(ntuple_dir),
               creation_time |-> ctime]]

\* get_ntuple_dir_data(ntuple_dir); isdir, size and ctime are what the file
\* system answers to os.path.isdir, get_size and get_creation_time
GetNtupleDirData(ntuple_dir, isdir, size, ctime) ==
    [raised |-> GetDirUser(ntuple_dir).kind = "ValueError",
     calls |-> <<"get_dir_user", "isdir">>
                  \o (IF isdir THEN <<"get_size", "get_creation_time">> ELSE << >>),
     data |-> [ntuple_dir |-> ntuple_dir,
               size |-> IF isdir THEN size ELSE -1,
               user |-> GetDirUser(ntuple_dir),
               creation_time |-> IF isdir THEN ctime ELSE S_minus1]]

\* what get_size and get_creation_time answer for a directory that exists
SampleSizes == {3}
SampleCtimes == {S_ctime}

\* the throttling test of __iter__
SleepEvery == 1000

MustSleep(counter) == counter % SleepEvery = 0

(***************************************************************************)
(* SQLTable: the relational sink.                                          *)
(***************************************************************************)
\* create_table: DROP TABLE IF EXISTS, CREATE TABLE
CreateTable(table) == << >>

\* variant: a failed INSERT leaves its row behind
InsertFailed_RowKept(table, row) == Append(table, row)

\* execute_query of an INSERT that raises: "with self.connection" rolls back
InsertFailed(table, row) == table

\* execute_query of an INSERT that succeeds: "with self.connection" commits
InsertCommitted(table, row) == Append(table, row)

\* what is done to the output file
Connected(table_name) == [op |-> "connect", table |-> table_name]
Created(table_name) == [op |-> "create_table", table |-> table_name]
Removed == [op |-> "remove", table |-> "*"]

\* variant: the connection is opened and the table recreated before top_dir
\* is tested
OpenTable_ConnectFirst(isdir, append, table_name) ==
    [raised |-> ~isdir,
     events |-> <<Connected(table_name)>>
                   \o (IF append THEN << >> ELSE <<Created(table_name)>>)]

\* create_xml_table and create_xml_ntuple_dir_table before fill_table: the
\* isdir test, then create_connection, then create_table unless append
OpenTable(isdir, append, table_name) ==
    IF ~isdir
    THEN [raised |-> TRUE, events |-> << >>]
    ELSE [raised |-> FALSE,
          events |-> <<Connected(table_name)>>
                        \o (IF append THEN << >> ELSE <<Created(table_name)>>)]

\* the table after the events of OpenTable
TableAfter(events, table) ==
    IF \E k \in 1..Len(events) : events[k].op = "create_table"
    THEN CreateTable(table)
    ELSE table

(***************************************************************************)
(* State.                                                                  *)
(***************************************************************************)
VARIABLES
    fn_name,      \* function under call: "get_dir_user", "get_year_from_path", "normalize_dir"
    fn_arg,       \* its argument
    fn_ret,       \* sequence of the values returned so far
    scan_lines,   \* the lines of the descriptor being read
    scan_pos,     \* number of lines read so far
    is_comment,   \* the "inside comment" flag
    scan_out,     \* what was yielded: <<line number, filename>> pairs
    files,        \* the files os.walk finds under top_dir: [path, lines], in walk order
    append,       \* the append argument of create_tables
    pc,           \* where create_tables stands
    tableA,       \* rows of table "xml"
    tableB,       \* rows of table "xml_ntuple_dir"
    xml_todo,     \* descriptors the running generator has not reached yet
    cur_xml,      \* xml_path of the descriptor being iterated
    dirs_todo,    \* directories of cur_xml not probed yet (the list being iterated)
    counter,      \* counter of XMLNtupleDirDataGenerator.__iter__
    slept_at,     \* number of directories probed when the generator last slept, -1 if never
    gen_rows,     \* rows the running generator has yielded to fill_table
    probes,       \* the calls of get_ntuple_dir_data: [isdir, calls, data]
    dir_counts,   \* throttling run: number of directories of each descriptor still to come
    dirs_left,    \* throttling run: directories of the current descriptor still to probe
    probed,       \* throttling run: number of get_ntuple_dir_data calls completed
    top_isdir,    \* what os.path.isdir(top_dir) answers
    sink_log,     \* what was done to the output file: connect, create_table, remove
    branches,     \* legacy run: important_branches, each with what its checkout holds
    branch_ind,   \* legacy run: ind, the index of the branch being scanned
    legacy_append \* legacy run: the append argument of make_tables_for_legacy_branches

funVars == <<fn_name, fn_arg, fn_ret>>
scanVars == <<scan_lines, scan_pos, is_comment, scan_out>>
envVars == <<files, append, top_isdir>>
iterVars == <<xml_todo, cur_xml, dirs_todo, counter, slept_at, probes>>
pipeVars == <<envVars, pc, tableA, tableB, iterVars, gen_rows, sink_log>>
throttleVars == <<dir_counts, dirs_left, probed>>
legacyVars == <<branches, branch_ind, legacy_append>>

vars == <<funVars, scanVars, pipeVars, throttleVars, legacyVars>>

\* the parts of the state a run does not use stay as they are here
FunIdle == fn_name = "none" /\ fn_arg = S_empty /\ fn_ret = << >>
ScanIdle == scan_lines = << >> /\ scan_pos = 0 /\ is_comment = FALSE /\ scan_out = << >>
IterIdle ==
    /\ xml_todo = << >> /\ cur_xml = S_empty /\ dirs_todo = << >>
    /\ counter = 0 /\ slept_at = -1 /\ probes = << >>
ThrottleIdle == dir_counts = << >> /\ dirs_left = 0 /\ probed = 0
LegacyIdle == branches = << >> /\ branch_ind = 0 /\ legacy_append = TRUE
PipeIdle ==
    /\ files = << >> /\ append = TRUE /\ pc = "idle"
    /\ top_isdir = TRUE /\ sink_log = << >>
    /\ tableA = << >> /\ tableB = << >> /\ gen_rows = << >>
    /\ IterIdle

(***************************************************************************)
(* Calls of the pure path functions on enumerated paths.                   *)
(***************************************************************************)
\* every sequence of 1..n elements of V
SeqsUpTo(V, n) == UNION {[1..k -> V] : k \in 1..n}

\* segments from which the arguments of each function are built
UserSegs == {S_empty, S_dot, S_dotdot, S_user, S_group, S_alice, S_bob}
ProbeSegs == {S_empty, S_dotdot, S_user, S_group, S_alice, S_bob}
YearSegs == {S_RunII_foo, S_2017v2, S_bar_xml, S_2019, S_job}
DirSegs == {S_empty, S_dot, S_dotdot, S_0000, S_job, S_123}

SegsOf(name) ==
    CASE name = "get_dir_user" -> UserSegs
      [] name = "get_year_from_path" -> YearSegs
      [] name = "normalize_dir" -> DirSegs
      [] name = "get_ntuple_dir_data" -> ProbeSegs

FunNames == {"get_dir_user", "get_year_from_path", "normalize_dir", "get_ntuple_dir_data"}

InitFun ==
    /\ fn_name \in FunNames
    /\ fn_arg \in {Join(segs) : segs \in SeqsUpTo(SegsOf(fn_name), MaxSegs)}
    /\ fn_ret = << >>
    /\ ScanIdle
    /\ PipeIdle
    /\ ThrottleIdle
    /\ LegacyIdle

CallGetDirUser ==
    /\ fn_name = "get_dir_user"
    /\ fn_ret = << >>
    /\ fn_ret' = <<GetDirUser(fn_arg)>>
    /\ UNCHANGED <<fn_name, fn_arg, scanVars, pipeVars, throttleVars, legacyVars>>

CallGetYearFromPath ==
    /\ fn_name = "get_year_from_path"
    /\ fn_ret = << >>
    /\ fn_ret' = <<GetYearFromPath(fn_arg)>>
    /\ UNCHANGED <<fn_name, fn_arg, scanVars, pipeVars, throttleVars, legacyVars>>

\* the normalization step applied to a directory, then to its own result
CallNormalizeDir ==
    /\ fn_name = "normalize_dir"
    /\ Len(fn_ret) < 2
    /\ fn_ret' = Append(fn_ret, Str(NormalizeDir(IF fn_ret = << >> THEN fn_arg
                                                  ELSE fn_ret[Len(fn_ret)].val)))
    /\ UNCHANGED <<fn_name, fn_arg, scanVars, pipeVars, throttleVars, legacyVars>>

\* get_ntuple_dir_data on a directory that exists or not
CallGetNtupleDirData ==
    /\ fn_name = "get_ntuple_dir_data"
    /\ fn_ret = << >>
    /\ \E isdir \in BOOLEAN : \E size \in SampleSizes : \E ctime \in SampleCtimes :
          fn_ret' = <<[isdir |-> isdir, probe |-> GetNtupleDirData(fn_arg, isdir, size, ctime)]>>
    /\ UNCHANGED <<fn_name, fn_arg, scanVars, pipeVars, throttleVars, legacyVars>>

NextFun == CallGetDirUser \/ CallGetYearFromPath \/ CallNormalizeDir \/ CallGetNtupleDirData

SpecFun == InitFun /\ [][NextFun]_vars

(***************************************************************************)
(* Claims about the pure path functions (checked under SpecFun).           *)
(***************************************************************************)
NormalizedTwice == fn_name = "normalize_dir" /\ Len(fn_ret) = 2

\* C2 (as stated): for every directory path d, N(N(d)) = N(d).
C2_IdempotentForEveryPath == NormalizedTwice => fn_ret[2] = fn_ret[1]

\* C2 (amended): N(N(d)) = N(d) for every directory path d whose normalized
\* result N(d) is not empty and does not itself end in a 4-digit segment.
C2_IdempotentOnceStripped ==
    (/\ NormalizedTwice
     /\ fn_ret[1].val # S_empty
     /\ ~IsFourDigits(Last(Split(fn_ret[1].val))))
    => fn_ret[2] = fn_ret[1]

\* a trailing 4-digit segment was dropped, and normalizing again changed nothing
C2_Witness ==
    /\ NormalizedTwice
    /\ IsFourDigits(Last(Split(NormPath(fn_arg))))
    /\ fn_ret[1].val # S_empty
    /\ ~IsFourDigits(Last(Split(fn_ret[1].val)))
    /\ fn_ret[2] = fn_ret[1]

GetDirUserCalled == fn_name = "get_dir_user" /\ Len(fn_ret) = 1

OwnerNames == {S_user, S_group, S_alice, S_bob}

\* C4 (as stated): '/user/<X>/...' gives X, '/group/<X>/...' gives X, a path
\* ending exactly at '/user' or '/group' gives null, a path with neither
\* marker gives null; for every path.
C4_OwnerForEveryPath ==
    GetDirUserCalled =>
        /\ \A X \in OwnerNames :
              Contains(fn_arg, S_slash_user_slash \o X \o S_slash) => fn_ret[1] = Str(X)
        /\ \A X \in OwnerNames :
              Contains(fn_arg, S_slash_group_slash \o X \o S_slash) => fn_ret[1] = Str(X)
        /\ (EndsWith(fn_arg, S_slash_user) \/ EndsWith(fn_arg, S_slash_group))
              => fn_ret[1] = None
        /\ (\A i \in 1..Len(Split(fn_arg)) : Split(fn_arg)[i] \notin {S_user, S_group})
              => fn_ret[1] = None

\* the segment following the first segment of parts equal to marker
FollowsFirst(parts, marker, x) ==
    \E i \in 1..(Len(parts) - 1) :
        /\ parts[i] = marker
        /\ \A j \in 1..(i - 1) : parts[j] # marker
        /\ parts[i + 1] = x

\* C4 (amended): get_dir_user reads the normalized path and first occurrences,
\* "user" before "group": if the normalized path contains '/user/' the result
\* is the segment following its first 'user' segment; otherwise, if it
\* contains '/group/', the segment following its first 'group' segment;
\* otherwise (no marker, or the path ends at its only marker) null.
C4_OwnerAfterFirstMarker ==
    GetDirUserCalled =>
        LET normed == NormPath(fn_arg)
            parts == Split(normed)
            r == fn_ret[1]
        IN  IF Contains(normed, S_slash_user_slash)
            THEN r.kind = "str" /\ FollowsFirst(parts, S_user, r.val)
            ELSE IF Contains(normed, S_slash_group_slash)
            THEN r.kind = "str" /\ FollowsFirst(parts, S_group, r.val)
            ELSE r = None

\* a path holding both markers, resolved to the name after '/user/'
C4_Witness ==
    /\ GetDirUserCalled
    /\ Contains(fn_arg, S_slash_user_slash \o S_alice)
    /\ Contains(fn_arg, S_slash_group_slash)
    /\ fn_ret[1] = Str(S_alice)

GetYearCalled == fn_name = "get_year_from_path" /\ Len(fn_ret) = 1

\* index of the first segment containing "RunII_", 0 when there is none
FirstRunII(parts) ==
    IF \E i \in 1..Len(parts) : Contains(parts[i], S_RunII_)
    THEN CHOOSE i \in 1..Len(parts) :
             Contains(parts[i], S_RunII_) /\ \A j \in 1..(i - 1) : ~Contains(parts[j], S_RunII_)
    ELSE 0

P_RunII_foo_bar_xml == Join(<<S_RunII_foo, S_bar_xml>>)
P_RunII_foo_2017v2 == Join(<<S_RunII_foo, S_2017v2>>)
P_RunII_foo_2017v2_bar_xml == Join(<<S_RunII_foo, S_2017v2, S_bar_xml>>)

\* C5 (as stated): with a "RunII_" segment, the candidate is the segment after
\* the first such segment and the result is null whenever the candidate is the
\* final segment; 'RunII_foo/bar.xml' and 'RunII_foo/2017v2' give null,
\* 'RunII_foo/2017v2/bar.xml' gives "2017v2".
C5_YearRejectedWhenFinal ==
    GetYearCalled =>
        LET parts == Split(fn_arg)
            ind == FirstRunII(parts)
        IN  /\ (ind # 0 /\ ind + 1 >= Len(parts)) => fn_ret[1] = None
            /\ fn_arg = P_RunII_foo_bar_xml => fn_ret[1] = None
            /\ fn_arg = P_RunII_foo_2017v2 => fn_ret[1] = None
            /\ fn_arg = P_RunII_foo_2017v2_bar_xml => fn_ret[1] = Str(S_2017v2)

\* C5 (amended): with a "RunII_" segment, the result is null when the first
\* such segment is itself the final segment; otherwise the candidate is the
\* segment after it and is returned iff it contains 16, 17 or 18 and no
\* ".xml", final or not: 'RunII_foo/bar.xml' gives null, 'RunII_foo/2017v2'
\* and 'RunII_foo/2017v2/bar.xml' give "2017v2".
C5_YearAfterRunII ==
    GetYearCalled =>
        LET parts == Split(fn_arg)
            ind == FirstRunII(parts)
            cand == parts[ind + 1]
            valid == /\ \E y \in {S_16, S_17, S_18} : Contains(cand, y)
                     /\ ~Contains(cand, S_dot_xml)
        IN  /\ (ind # 0 /\ ind = Len(parts)) => fn_ret[1] = None
            /\ (ind # 0 /\ ind < Len(parts)) => fn_ret[1] = (IF valid THEN Str(cand) ELSE None)
            /\ fn_arg = P_RunII_foo_bar_xml => fn_ret[1] = None
            /\ fn_arg = P_RunII_foo_2017v2 => fn_ret[1] = Str(S_2017v2)
            /\ fn_arg = P_RunII_foo_2017v2_bar_xml => fn_ret[1] = Str(S_2017v2)

\* the candidate is the final segment and is returned
C5_Witness ==
    /\ GetYearCalled
    /\ fn_arg = P_RunII_foo_2017v2
    /\ fn_ret[1] = Str(S_2017v2)

ProbeCalled == fn_name = "get_ntuple_dir_data" /\ Len(fn_ret) = 1

SeqHas(seq, x) == \E i \in 1..Len(seq) : seq[i] = x

\* C10: for every ntuple_dir that is not an existing directory,
\* get_ntuple_dir_data returns size = -1 and creation_time = "-1" without
\* raising, never calls the size walk or the timestamp read, and still fills
\* user from the path alone.
C10_AbsentDirSentinels ==
    (ProbeCalled /\ ~fn_ret[1].isdir) =>
        LET probe == fn_ret[1].probe
        IN  /\ ~probe.raised
            /\ probe.data.ntuple_dir = fn_arg
            /\ probe.data.size = -1
            /\ probe.data.creation_time = S_minus1
            /\ ~SeqHas(probe.calls, "get_size")
            /\ ~SeqHas(probe.calls, "get_creation_time")
            /\ probe.data.user.kind \in {"str", "None"}
            /\ probe.data.user = GetDirUser(fn_arg)
            /\ (fn_arg = Join(<<S_empty, S_user, S_alice, S_bob>>)
                  => probe.data.user = Str(S_alice))

\* an absent directory under /user/alice/: sentinels recorded, user resolved
C10_Witness ==
    /\ ProbeCalled
    /\ ~fn_ret[1].isdir
    /\ fn_arg = Join(<<S_empty, S_user, S_alice, S_bob>>)
    /\ fn_ret[1].probe.data.size = -1
    /\ fn_ret[1].probe.data.creation_time = S_minus1
    /\ fn_ret[1].probe.data.user = Str(S_alice)

\* the parts of the normalized path
NormedParts == Split(NormPath(fn_arg))

\* C13: get_dir_user never raises; for every path, also with '.' and '..'
\* segments, redundant separators and markers that normalization removes, it
\* returns null or one segment of the normalized path.
C13_GetDirUserNeverRaises ==
    GetDirUserCalled =>
        /\ fn_ret[1].kind \in {"None", "str"}
        /\ fn_ret[1].kind = "str" =>
               \E i \in 1..Len(NormedParts) : NormedParts[i] = fn_ret[1].val

\* reached: '/user/../bob' holds '/user/' as given and no marker once
\* normalized to '/bob'; the result is null
C13_Witness ==
    /\ GetDirUserCalled
    /\ fn_arg = Join(<<S_empty, S_user, S_dotdot, S_bob>>)
    /\ NormPath(fn_arg) = Join(<<S_empty, S_bob>>)
    /\ fn_ret[1] = None

(***************************************************************************)
(* Reading one descriptor line by line (get_ntuple_filenames_from_xml).    *)
(***************************************************************************)
F_job_0000_f1 == Join(<<S_job, S_0000, S_f1_root>>)
F_job_0001_f2 == Join(<<S_job, S_0001, S_f2_root>>)

\* a file-reference line as written in a descriptor
RefLine(fname) == S_In_open \o fname \o S_Lumi_close \o S_newline

L_ref == RefLine(F_job_0000_f1)
L_ref_sp == S_space \o S_space \o S_In_open_sp \o F_job_0001_f2 \o S_Lumi_close_sp \o S_newline
L_open == S_comment_open \o S_newline
L_close == S_comment_close \o S_newline
L_comment == S_comment_open \o S_space \o S_note \o S_space \o S_comment_close \o S_newline
L_commented_ref ==
    S_comment_open \o S_space \o S_In_open \o F_job_0000_f1 \o S_Lumi_close
        \o S_space \o S_comment_close \o S_newline
L_open_ref == S_comment_open \o S_space \o RefLine(F_job_0000_f1)
L_ref_close == S_In_open \o F_job_0001_f2 \o S_Lumi_close \o S_space \o S_comment_close \o S_newline
L_lumi1 == S_In_open \o F_job_0000_f1 \o S_Lumi1_close \o S_newline
L_blank == S_newline

LineChoices ==
    {L_ref, L_ref_sp, L_open, L_close, L_comment, L_commented_ref, L_open_ref,
     L_ref_close, L_lumi1, L_blank}

InitScan ==
    /\ scan_lines \in UNION {[1..k -> LineChoices] : k \in 0..MaxLines}
    /\ scan_pos = 0
    /\ is_comment = FALSE
    /\ scan_out = << >>
    /\ FunIdle
    /\ PipeIdle
    /\ ThrottleIdle
    /\ LegacyIdle

\* one iteration of "for line in f"
ReadLine ==
    /\ scan_pos < Len(scan_lines)
    /\ LET step == ScanLine(is_comment, scan_lines[scan_pos + 1])
       IN  /\ is_comment' = step.is_comment
           /\ scan_out' = IF step.fname = None THEN scan_out
                          ELSE Append(scan_out, <<scan_pos + 1, step.fname.val>>)
    /\ scan_pos' = scan_pos + 1
    /\ UNCHANGED <<scan_lines, funVars, pipeVars, throttleVars, legacyVars>>

NextScan == ReadLine

SpecScan == InitScan /\ [][NextScan]_vars

(***************************************************************************)
(* Claims about comment skipping (checked under SpecScan).                 *)
(***************************************************************************)
LineNumbers == 1..Len(scan_lines)
Yielded(i) == \E k \in 1..Len(scan_out) : scan_out[k][1] = i

\* C6 (as stated): a line lying between a line starting with '<!--' and the
\* next later line ending with '-->', both included, is never yielded.
C6_SkippedUpToNextLaterClose ==
    LET opens == [i \in LineNumbers |-> StartsWith(Strip(scan_lines[i]), S_comment_open)]
        closes == [i \in LineNumbers |-> EndsWith(Strip(scan_lines[i]), S_comment_close)]
    IN  \A o \in LineNumbers : \A c \in LineNumbers : \A j \in LineNumbers :
            (/\ opens[o]
             /\ o < c
             /\ closes[c]
             /\ \A m \in (o + 1)..(c - 1) : ~closes[m]
             /\ o <= j /\ j <= c)
            => ~Yielded(j)

\* C6 (amended): a line lying between a line starting with '<!--' and the
\* first line at or after it ending with '-->' (the opening line itself when
\* the comment closes on it), both included, is never yielded, even when it
\* matches the file-reference pattern.
C6_SkippedUpToFirstClose ==
    LET opens == [i \in LineNumbers |-> StartsWith(Strip(scan_lines[i]), S_comment_open)]
        closes == [i \in LineNumbers |-> EndsWith(Strip(scan_lines[i]), S_comment_close)]
    IN  \A o \in LineNumbers : \A c \in LineNumbers : \A j \in LineNumbers :
            (/\ opens[o]
             /\ o <= c
             /\ closes[c]
             /\ \A m \in o..(c - 1) : ~closes[m]
             /\ o <= j /\ j <= c)
            => ~Yielded(j)

\* a whole file was read: the line opening a comment matches the pattern and
\* was skipped, the comment closes on the next line, and the reference on the
\* line after the comment was yielded
C6_Witness ==
    /\ scan_pos = Len(scan_lines)
    /\ scan_lines = <<L_open_ref, L_close, L_ref>>
    /\ SearchFname(Strip(L_open_ref)) = Str(F_job_0000_f1)
    /\ scan_out = <<<<3, F_job_0000_f1>>>>

\* the line the next iteration reads, stripped, and what the pattern captures
NextLine == Strip(scan_lines[scan_pos + 1])
NextYield == Append(scan_out, <<scan_pos + 1, SearchFname(NextLine).val>>)

\* scan_out lists each line at most once and in line order
YieldedInLineOrder ==
    \A k \in 1..Len(scan_out) :
        /\ scan_out[k][1] \in 1..scan_pos
        /\ k > 1 => scan_out[k - 1][1] < scan_out[k][1]

\* C12 (as stated): every line read while the inside-comment flag is clear,
\* that does not start with '<!--' and matches the file-reference pattern, has
\* its captured filename yielded, exactly once and in line order; every other
\* line is skipped.
C12_EveryMatchingLineYielded ==
    /\ [][scan_pos < Len(scan_lines) =>
             IF /\ ~is_comment
                /\ ~StartsWith(NextLine, S_comment_open)
                /\ SearchFname(NextLine) # None
             THEN scan_out' = NextYield
             ELSE scan_out' = scan_out]_vars
    /\ []YieldedInLineOrder

\* C12 (amended): every line read while the inside-comment flag is clear,
\* that neither starts with '<!--' nor ends with '-->' and matches the
\* file-reference pattern, has its captured filename yielded, exactly once and
\* in line order; every other line is skipped.
C12_EveryMatchingOpenLineYielded ==
    /\ [][scan_pos < Len(scan_lines) =>
             IF /\ ~is_comment
                /\ ~StartsWith(NextLine, S_comment_open)
                /\ ~EndsWith(NextLine, S_comment_close)
                /\ SearchFname(NextLine) # None
             THEN scan_out' = NextYield
             ELSE scan_out' = scan_out]_vars
    /\ []YieldedInLineOrder

\* reached: after a one-line comment, an indented reference written with the
\* optional spaces is yielded, and the Lumi="1.0" line after it is skipped
C12_Witness ==
    /\ scan_pos = Len(scan_lines)
    /\ scan_lines = <<L_comment, L_ref_sp, L_lumi1>>
    /\ scan_out = <<<<2, F_job_0001_f2>>>>

(***************************************************************************)
(* create_tables: table "xml", then table "xml_ntuple_dir".                *)
(***************************************************************************)
\* the provenance string "%s/%s" % (remote_url, branch), an opaque input; in a
\* legacy run the branch is the one checked out, named by its place in the
\* sorted list
GitSrc == IF branches = << >> THEN "UHH2-datasets/master" ELSE <<"UHH2", branch_ind + 1>>

\* what the output file holds before the run: one row per table
OldRowA == [filepath |-> S_c_xml, year |-> Str(S_empty), branch |-> Str(S_empty), git_src |-> "old"]
OldRowB ==
    [ntuple_dir |-> S_job, size |-> -1, user |-> None, creation_time |-> S_minus1,
     xml_filepath |-> S_c_xml]

\* descriptors and other files the scan root may hold
F_c1_f1 ==
    Join(<<S_RunII_102X_v1, S_2017v2, S_store, S_user, S_alice, S_job, S_0000, S_f1_root>>)
F_c1_f2 ==
    Join(<<S_RunII_102X_v1, S_2017v2, S_store, S_user, S_alice, S_job, S_0001, S_f2_root>>)
D_c1_job == Join(<<S_RunII_102X_v1, S_2017v2, S_store, S_user, S_alice, S_job>>)

P_a_xml == S_a_xml
P_RunII_b_xml == Join(<<S_RunII_102X_v1, S_2017v2, S_b_xml>>)
P_readme_txt == S_readme_txt
PathChoices == {P_a_xml, P_RunII_b_xml, P_readme_txt}

Body_two_shards == <<RefLine(F_c1_f1), RefLine(F_c1_f2)>>
Body_no_refs == <<L_comment, L_lumi1>>
Body_two_dirs == <<L_ref_sp, L_open, RefLine(F_c1_f1), L_close, RefLine(F_c1_f2)>>
BodyChoices == {Body_two_shards, Body_no_refs, Body_two_dirs}

FileChoices == [path : PathChoices, lines : BodyChoices]

\* the lines of the descriptor at os.path.join(top_dir, xml_path)
LinesOf(xml_path) ==
    (CHOOSE f \in {files[i] : i \in 1..Len(files)} : f.path = xml_path).lines

Init ==
    /\ files \in {fs \in UNION {[1..k -> FileChoices] : k \in 0..MaxXml} :
                    \A i, j \in 1..Len(fs) : fs[i].path = fs[j].path => i = j}
    /\ append \in BOOLEAN
    /\ top_isdir \in BOOLEAN
    /\ sink_log = << >>
    /\ pc = "create_xml_table"
    /\ tableA = <<OldRowA>>
    /\ tableB = <<OldRowB>>
    /\ gen_rows = << >>
    /\ IterIdle
    /\ FunIdle
    /\ ScanIdle
    /\ ThrottleIdle
    /\ LegacyIdle

\* create_xml_table up to the call of fill_table, or to its IOError
CreateXmlTable ==
    /\ pc = "create_xml_table"
    /\ \E opened \in {OpenTable(top_isdir, append, "xml")} :
           /\ sink_log' = sink_log \o opened.events
           /\ tableA' = TableAfter(opened.events, tableA)
           /\ IF opened.raised
              THEN /\ pc' = "raised_no_top_dir"
                   /\ UNCHANGED <<xml_todo, gen_rows>>
              ELSE /\ xml_todo' = GetXmlFilenames(files)
                   /\ gen_rows' = << >>
                   /\ pc' = "fill_xml"
    /\ UNCHANGED <<envVars, tableB, cur_xml, dirs_todo, counter, slept_at, probes>>
    /\ UNCHANGED <<funVars, scanVars, throttleVars, legacyVars>>

\* fill_table: the generator yields the next row and the INSERT commits
FillXmlInsert ==
    /\ pc = "fill_xml"
    /\ xml_todo # << >>
    /\ \E row \in {GetXmlData(Head(xml_todo), GitSrc)} :
           /\ gen_rows' = Append(gen_rows, row)
           /\ tableA' = InsertCommitted(tableA, row)
    /\ xml_todo' = Tail(xml_todo)
    /\ UNCHANGED <<envVars, pc, tableB, cur_xml, dirs_todo, counter, slept_at, probes>>
    /\ UNCHANGED <<funVars, scanVars, throttleVars, legacyVars, sink_log>>

\* fill_table: the generator yields the next row and the INSERT raises
FillXmlFail ==
    /\ pc = "fill_xml"
    /\ xml_todo # << >>
    /\ \E row \in {GetXmlData(Head(xml_todo), GitSrc)} :
           /\ gen_rows' = Append(gen_rows, row)
           /\ tableA' = InsertFailed(tableA, row)
    /\ xml_todo' = Tail(xml_todo)
    /\ pc' = "raised_in_fill_xml"
    /\ UNCHANGED <<envVars, tableB, cur_xml, dirs_todo, counter, slept_at, probes>>
    /\ UNCHANGED <<funVars, scanVars, throttleVars, legacyVars, sink_log>>

\* fill_table: the generator is exhausted, create_xml_table returns
FillXmlDone ==
    /\ pc = "fill_xml"
    /\ xml_todo = << >>
    /\ pc' = "create_xml_ntuple_dir_table"
    /\ UNCHANGED <<envVars, tableA, tableB, iterVars, gen_rows>>
    /\ UNCHANGED <<funVars, scanVars, throttleVars, legacyVars, sink_log>>

\* create_xml_ntuple_dir_table up to the call of fill_table, or to its IOError
CreateXmlNtupleDirTable ==
    /\ pc = "create_xml_ntuple_dir_table"
    /\ \E opened \in {OpenTable(top_isdir, append, "xml_ntuple_dir")} :
           /\ sink_log' = sink_log \o opened.events
           /\ tableB' = TableAfter(opened.events, tableB)
           /\ IF opened.raised
              THEN /\ pc' = "raised_no_top_dir"
                   /\ UNCHANGED <<xml_todo, cur_xml, dirs_todo, counter, gen_rows>>
              ELSE /\ xml_todo' = GetXmlFilenames(files)
                   /\ cur_xml' = S_empty
                   /\ dirs_todo' = << >>
                   /\ counter' = 0
                   /\ gen_rows' = << >>
                   /\ pc' = "fill_xml_ntuple_dir"
    /\ UNCHANGED <<envVars, tableA, slept_at, probes>>
    /\ UNCHANGED <<funVars, scanVars, throttleVars, legacyVars>>

\* the environment: top_dir goes away between the two calls of create_tables
TopDirRemoved ==
    /\ pc = "create_xml_ntuple_dir_table"
    /\ top_isdir
    /\ top_isdir' = FALSE
    /\ UNCHANGED <<files, append, pc, tableA, tableB, iterVars, gen_rows, sink_log>>
    /\ UNCHANGED <<funVars, scanVars, throttleVars, legacyVars>>

\* __iter__: the outer loop reaches the next descriptor and lists its directories
IterNextXml ==
    /\ pc = "fill_xml_ntuple_dir"
    /\ dirs_todo = << >>
    /\ xml_todo # << >>
    /\ cur_xml' = Head(xml_todo)
    /\ xml_todo' = Tail(xml_todo)
    /\ dirs_todo' \in DirLists(LinesOf(Head(xml_todo)))
    /\ UNCHANGED <<envVars, pc, tableA, tableB, counter, slept_at, probes, gen_rows>>
    /\ UNCHANGED <<funVars, scanVars, throttleVars, legacyVars, sink_log>>

\* __iter__: one pass of the inner loop up to the yield, as a function of what
\* the file system answers; counter counts the pass before the probe is made
IterStep(isdir, size, ctime) ==
    LET probe == CHOOSE r \in {GetNtupleDirData(Head(dirs_todo), isdir, size, ctime)} : TRUE
    IN  [counter |-> counter + 1,
         slept_at |-> IF MustSleep(counter + 1) THEN Len(probes) ELSE slept_at,
         probe |-> [isdir |-> isdir, calls |-> probe.calls, data |-> probe.data],
         raised |-> probe.raised,
         row |-> [ntuple_dir |-> probe.data.ntuple_dir,
                  size |-> probe.data.size,
                  user |-> probe.data.user,
                  creation_time |-> probe.data.creation_time,
                  xml_filepath |-> cur_xml]]

\* fill_table: the generator probes the next directory, yields its row, and
\* the INSERT commits
IterProbeInsert ==
    /\ pc = "fill_xml_ntuple_dir"
    /\ dirs_todo # << >>
    /\ \E isdir \in BOOLEAN : \E size \in SampleSizes : \E ctime \in SampleCtimes :
          \E step \in {IterStep(isdir, size, ctime)} :
              /\ counter' = step.counter
              /\ slept_at' = step.slept_at
              /\ probes' = Append(probes, step.probe)
              /\ IF step.raised
                 THEN /\ pc' = "raised_in_generator"
                      /\ UNCHANGED <<tableB, gen_rows>>
                 ELSE /\ gen_rows' = Append(gen_rows, step.row)
                      /\ tableB' = InsertCommitted(tableB, step.row)
                      /\ pc' = pc
    /\ dirs_todo' = Tail(dirs_todo)
    /\ UNCHANGED <<envVars, tableA, xml_todo, cur_xml>>
    /\ UNCHANGED <<funVars, scanVars, throttleVars, legacyVars, sink_log>>

\* fill_table: the generator probes the next directory, yields its row, and
\* the INSERT raises
IterProbeFail ==
    /\ pc = "fill_xml_ntuple_dir"
    /\ dirs_todo # << >>
    /\ \E isdir \in BOOLEAN : \E size \in SampleSizes : \E ctime \in SampleCtimes :
          \E step \in {IterStep(isdir, size, ctime)} :
              /\ ~step.raised
              /\ counter' = step.counter
              /\ slept_at' = step.slept_at
              /\ probes' = Append(probes, step.probe)
              /\ gen_rows' = Append(gen_rows, step.row)
              /\ tableB' = InsertFailed(tableB, step.row)
    /\ dirs_todo' = Tail(dirs_todo)
    /\ pc' = "raised_in_fill_xml_ntuple_dir"
    /\ UNCHANGED <<envVars, tableA, xml_todo, cur_xml>>
    /\ UNCHANGED <<funVars, scanVars, throttleVars, legacyVars, sink_log>>

\* fill_table: the generator is exhausted, create_tables returns
FillXmlNtupleDirDone ==
    /\ pc = "fill_xml_ntuple_dir"
    /\ dirs_todo = << >>
    /\ xml_todo = << >>
    /\ pc' = "done"
    /\ UNCHANGED <<envVars, tableA, tableB, iterVars, gen_rows>>
    /\ UNCHANGED <<funVars, scanVars, throttleVars, legacyVars, sink_log>>

Next ==
    \/ TopDirRemoved
    \/ CreateXmlTable
    \/ FillXmlInsert
    \/ FillXmlFail
    \/ FillXmlDone
    \/ CreateXmlNtupleDirTable
    \/ IterNextXml
    \/ IterProbeInsert
    \/ IterProbeFail
    \/ FillXmlNtupleDirDone

Spec == Init /\ [][Next]_vars

(***************************************************************************)
(* Claims about a full run (checked under Spec).                           *)
(***************************************************************************)
SinkDid(event) == \E k \in 1..Len(sink_log) : sink_log[k] = event
BaseA == IF SinkDid(Created("xml")) THEN << >> ELSE <<OldRowA>>
BaseB == IF SinkDid(Created("xml_ntuple_dir")) THEN << >> ELSE <<OldRowB>>

\* the rows this run has added to each table
RunRowsA == IF pc = "create_xml_table" THEN << >> ELSE SubSeq(tableA, Len(BaseA) + 1, Len(tableA))
RunRowsB ==
    IF pc \in {"create_xml_table", "fill_xml", "raised_in_fill_xml", "create_xml_ntuple_dir_table"}
    THEN << >>
    ELSE SubSeq(tableB, Len(BaseB) + 1, Len(tableB))

\* the descriptors of the scan root: the files named *.xml, in walk order
Descriptors == SelectSeq(files, LAMBDA f : EndsWith(f.path, S_dot_xml))

OneDescriptorTwoShards == files = <<[path |-> P_a_xml, lines |-> Body_two_shards]>>

\* C1 (as stated): one descriptor 'a.xml' with the two references gives one
\* table-A row with branch "RunII_102X_v1" and year "2017v2", and one table-B
\* row whose ntuple_dir ends in '/job' and whose user is "alice".
C1_EndToEndBranchFromReferences ==
    (pc = "done" /\ OneDescriptorTwoShards) =>
        /\ Len(RunRowsA) = 1
        /\ RunRowsA[1].branch = Str(S_RunII_102X_v1)
        /\ RunRowsA[1].year = Str(S_2017v2)
        /\ Len(RunRowsB) = 1
        /\ EndsWith(RunRowsB[1].ntuple_dir, S_slash_job)
        /\ RunRowsB[1].user = Str(S_alice)

\* C1 (amended): the same run gives one table-A row with filepath 'a.xml' and
\* branch = "" and year = "" (both are read from the descriptor's own path,
\* which has no such segment), and one table-B row whose ntuple_dir ends in
\* '/job' and whose user is "alice".
C1_EndToEnd ==
    (pc = "done" /\ OneDescriptorTwoShards) =>
        /\ Len(RunRowsA) = 1
        /\ RunRowsA[1].filepath = S_a_xml
        /\ RunRowsA[1].branch = Str(S_empty)
        /\ RunRowsA[1].year = Str(S_empty)
        /\ Len(RunRowsB) = 1
        /\ RunRowsB[1].xml_filepath = S_a_xml
        /\ EndsWith(RunRowsB[1].ntuple_dir, S_slash_job)
        /\ RunRowsB[1].user = Str(S_alice)

C1_Witness ==
    /\ pc = "done"
    /\ OneDescriptorTwoShards
    /\ Len(RunRowsA) = 1
    /\ Len(RunRowsB) = 1
    /\ RunRowsB[1].ntuple_dir = D_c1_job

\* no two rows share descriptor and directory
NoRepeatedDir(rows) ==
    \A i, j \in 1..Len(rows) :
        (/\ rows[i].xml_filepath = rows[j].xml_filepath
         /\ rows[i].ntuple_dir = rows[j].ntuple_dir) => i = j

\* the rows of descriptor desc are exactly the distinct directories of fnames
RowsAreDirsOf(desc, fnames, rows) ==
    LET dirs == {NtupleDirOf(fnames[k]) : k \in 1..Len(fnames)}
        mine == {i \in 1..Len(rows) : rows[i].xml_filepath = desc.path}
    IN  /\ {rows[i].ntuple_dir : i \in mine} = dirs
        /\ Cardinality(mine) = Cardinality(dirs)
        /\ desc.lines = Body_two_shards => dirs = {D_c1_job}

RowsAreDirs(descs, rows) ==
    \A d \in 1..Len(descs) : RowsAreDirsOf(descs[d], NtupleFilenames(descs[d].lines), rows)

\* C3: the table-B rows of a descriptor correspond one-to-one to the distinct
\* normalized directories of its yielded references: no two rows of one
\* descriptor share an ntuple_dir (references differing only in the shard
\* segment give one row), and a directory referenced by two descriptors gives
\* one row for each.
C3_OneRowPerDescriptorAndDir ==
    /\ NoRepeatedDir(RunRowsB)
    /\ pc = "done" => RowsAreDirs(Descriptors, RunRowsB)

\* two descriptors referencing the same directory, through two shards each:
\* one row for each descriptor
C3_Witness ==
    /\ pc = "done"
    /\ Len(files) = 2
    /\ files[1].lines = Body_two_shards
    /\ files[2].lines = Body_two_shards
    /\ Len(RunRowsB) = 2
    /\ RunRowsB[1].ntuple_dir = RunRowsB[2].ntuple_dir
    /\ RunRowsB[1].xml_filepath # RunRowsB[2].xml_filepath

AFilled ==
    pc \in {"create_xml_ntuple_dir_table", "fill_xml_ntuple_dir", "done",
            "raised_in_fill_xml_ntuple_dir", "raised_in_generator"}

\* the rows so far are those of the first descriptors, with str branch and year
RowsFollowDescriptors(descs, rows) ==
    \A i \in 1..Len(rows) :
        /\ i <= Len(descs)
        /\ rows[i].filepath = descs[i].path
        /\ rows[i].branch.kind = "str"
        /\ rows[i].year.kind = "str"

\* a descriptor yielding no reference has no row in rowsB
NoRefsNoRows(descs, rowsB) ==
    \A d \in 1..Len(descs) :
        NtupleFilenames(descs[d].lines) = << >>
            => \A i \in 1..Len(rowsB) : rowsB[i].xml_filepath # descs[d].path

\* C7: table A gets one row per discovered descriptor, with filepath equal to
\* its relative path and branch and year never null ("" when unresolved); a
\* descriptor yielding no referenced file has no table-B row but its table-A
\* row.
C7_OneRowPerDescriptor ==
    /\ RowsFollowDescriptors(Descriptors, RunRowsA)
    /\ AFilled => Len(RunRowsA) = Len(Descriptors)
    /\ pc = "done" => NoRefsNoRows(Descriptors, RunRowsB)

\* a descriptor without references and without branch or year in its path
C7_Witness ==
    /\ pc = "done"
    /\ Len(files) = 2
    /\ files[1] = [path |-> P_a_xml, lines |-> Body_no_refs]
    /\ files[2].path = P_readme_txt
    /\ RunRowsA = <<[filepath |-> S_a_xml, year |-> Str(S_empty), branch |-> Str(S_empty),
                     git_src |-> GitSrc]>>
    /\ RunRowsB = << >>

RaisedPcs == {"raised_in_fill_xml", "raised_in_fill_xml_ntuple_dir", "raised_in_generator"}

\* all but the last element
Front(seq) == SubSeq(seq, 1, Len(seq) - 1)

\* C9: when the insertion of the k-th row of a fill fails, the error
\* propagates (nothing more runs), no later row is inserted, and the table
\* holds its content before the fill plus rows 1..k-1, in generation order.
C9_FailedInsertKeepsEarlierRows ==
    /\ [](/\ pc = "raised_in_fill_xml" =>
                /\ Len(gen_rows) >= 1
                /\ tableA = BaseA \o Front(gen_rows)
                /\ tableB = <<OldRowB>>
          /\ pc = "raised_in_fill_xml_ntuple_dir" =>
                /\ Len(gen_rows) >= 1
                /\ tableB = BaseB \o Front(gen_rows)
                /\ Len(tableA) = Len(BaseA) + Len(Descriptors))
    /\ [][pc \notin RaisedPcs]_vars

\* the second row of table B failed after the first was committed
C9_Witness ==
    /\ pc = "raised_in_fill_xml_ntuple_dir"
    /\ append
    /\ Len(gen_rows) = 2
    /\ tableB = <<OldRowB, gen_rows[1]>>

\* C11: when top_dir is not an existing directory, create_xml_table and
\* create_xml_ntuple_dir_table raise before any scanning begins and leave the
\* store as it was: no connection opened, no table dropped or created (also
\* with append = false), no row inserted; nothing runs after the raise.
C11_MissingRootFailsFast ==
    /\ [][(pc \in {"create_xml_table", "create_xml_ntuple_dir_table"} /\ ~top_isdir) =>
             /\ pc' = "raised_no_top_dir"
             /\ UNCHANGED <<tableA, tableB, sink_log>>
             /\ UNCHANGED <<xml_todo, dirs_todo, probes, gen_rows>>]_vars
    /\ [][pc # "raised_no_top_dir"]_vars

\* reached: create_xml_table raised with append = false over a root said to
\* hold files; both tables keep their old row and nothing was opened
C11_Witness ==
    /\ pc = "raised_no_top_dir"
    /\ ~top_isdir
    /\ ~append
    /\ files # << >>
    /\ tableA = <<OldRowA>>
    /\ tableB = <<OldRowB>>
    /\ sink_log = << >>

(***************************************************************************)
(* The throttling of XMLNtupleDirDataGenerator.__iter__ over a long run:   *)
(* descriptors are reduced to the number of directories they reference.   *)
(***************************************************************************)
DirCountChoices == {0, 600, 1000}

InitThrottle ==
    /\ dir_counts \in UNION {[1..k -> DirCountChoices] : k \in 0..MaxThrottleXml}
    /\ dirs_left = 0
    /\ probed = 0
    /\ counter = 0
    /\ slept_at = -1
    /\ pc = "fill_xml_ntuple_dir"
    /\ files = << >> /\ append = TRUE /\ top_isdir = TRUE /\ sink_log = << >>
    /\ LegacyIdle
    /\ tableA = << >> /\ tableB = << >> /\ gen_rows = << >>
    /\ xml_todo = << >> /\ cur_xml = S_empty /\ dirs_todo = << >> /\ probes = << >>
    /\ FunIdle
    /\ ScanIdle

\* the outer loop reaches the next descriptor
ThrottleNextXml ==
    /\ pc = "fill_xml_ntuple_dir"
    /\ dirs_left = 0
    /\ dir_counts # << >>
    /\ dirs_left' = Head(dir_counts)
    /\ dir_counts' = Tail(dir_counts)
    /\ UNCHANGED <<probed, pipeVars, funVars, scanVars, legacyVars>>

\* one pass of the inner loop: count, sleep when due, probe, yield
ThrottlePass ==
    /\ pc = "fill_xml_ntuple_dir"
    /\ dirs_left > 0
    /\ counter' = counter + 1
    /\ slept_at' = IF MustSleep(counter + 1) THEN probed ELSE slept_at
    /\ probed' = probed + 1
    /\ dirs_left' = dirs_left - 1
    /\ UNCHANGED <<dir_counts, envVars, pc, tableA, tableB, gen_rows>>
    /\ UNCHANGED <<xml_todo, cur_xml, dirs_todo, probes, funVars, scanVars>>
    /\ UNCHANGED <<legacyVars, sink_log>>

\* the generator is exhausted
ThrottleDone ==
    /\ pc = "fill_xml_ntuple_dir"
    /\ dirs_left = 0
    /\ dir_counts = << >>
    /\ pc' = "done"
    /\ UNCHANGED <<throttleVars, envVars, tableA, tableB, iterVars, gen_rows, funVars, scanVars>>
    /\ UNCHANGED <<legacyVars, sink_log>>

NextThrottle == ThrottleNextXml \/ ThrottlePass \/ ThrottleDone

SpecThrottle == InitThrottle /\ [][NextThrottle]_vars

\* C8: the generator pauses exactly at the points where the number of
\* directories already probed, counted across all descriptors of the run, is
\* a positive multiple of 1000, and at no other point.
C8_PauseAfterEvery1000Probed ==
    /\ slept_at # -1 => (slept_at > 0 /\ slept_at % SleepEvery = 0)
    /\ probed > SleepEvery => slept_at = SleepEvery * ((probed - 1) \div SleepEvery)

(***************************************************************************)
(* make_tables_for_legacy_branches: the scan repeated over the branches.   *)
(***************************************************************************)
\* what a checkout may hold under common/datasets
Tree_a == <<[path |-> P_a_xml, lines |-> Body_two_shards]>>
Tree_b ==
    <<[path |-> P_RunII_b_xml, lines |-> Body_two_dirs],
      [path |-> P_readme_txt, lines |-> Body_no_refs]>>
CheckoutChoices ==
    {[isdir |-> TRUE, files |-> Tree_a], [isdir |-> TRUE, files |-> Tree_b],
     [isdir |-> TRUE, files |-> << >>], [isdir |-> FALSE, files |-> << >>]}

\* variant: every branch is scanned with the append argument as given
ThisAppend_AsGiven(index, append_arg) == append_arg

\* this_append = ((ind == 0) and append) or (ind != 0)
ThisAppend(index, append_arg) == (index = 0 /\ append_arg) \/ index # 0

\* the output file exists and holds both tables, one old row each
InitLegacy ==
    /\ branches \in UNION {[1..k -> CheckoutChoices] : k \in 0..MaxBranches}
    /\ legacy_append \in BOOLEAN
    /\ branch_ind = 0
    /\ pc = "legacy_start"
    /\ files = << >> /\ append = TRUE /\ top_isdir = TRUE
    /\ sink_log = << >>
    /\ tableA = <<OldRowA>>
    /\ tableB = <<OldRowB>>
    /\ gen_rows = << >>
    /\ IterIdle
    /\ FunIdle
    /\ ScanIdle
    /\ ThrottleIdle

\* if not append and os.path.isfile(output_filename): os.remove(output_filename)
LegacyRemoveOutput ==
    /\ pc = "legacy_start"
    /\ IF legacy_append
       THEN UNCHANGED <<tableA, tableB, sink_log>>
       ELSE /\ tableA' = << >>
            /\ tableB' = << >>
            /\ sink_log' = Append(sink_log, Removed)
    /\ pc' = "legacy_loop"
    /\ UNCHANGED <<envVars, iterVars, gen_rows, legacyVars, funVars, scanVars, throttleVars>>

\* the loop reaches the next branch: checkout, pull, this_append
LegacyCheckout ==
    /\ pc = "legacy_loop"
    /\ branch_ind < Len(branches)
    /\ files' = branches[branch_ind + 1].files
    /\ top_isdir' = branches[branch_ind + 1].isdir
    /\ append' = ThisAppend(branch_ind, legacy_append)
    /\ pc' = "create_xml_table"
    /\ UNCHANGED <<tableA, tableB, sink_log, iterVars, gen_rows>>
    /\ UNCHANGED <<legacyVars, funVars, scanVars, throttleVars>>

\* create_xml_ntuple_dir_table has returned: on to the next index
LegacyBranchScanned ==
    /\ pc = "done"
    /\ branch_ind' = branch_ind + 1
    /\ pc' = "legacy_loop"
    /\ UNCHANGED <<envVars, tableA, tableB, sink_log, iterVars, gen_rows>>
    /\ UNCHANGED <<branches, legacy_append, funVars, scanVars, throttleVars>>

\* the loop is over
LegacyReturn ==
    /\ pc = "legacy_loop"
    /\ branch_ind = Len(branches)
    /\ pc' = "legacy_done"
    /\ UNCHANGED <<envVars, tableA, tableB, sink_log, iterVars, gen_rows>>
    /\ UNCHANGED <<legacyVars, funVars, scanVars, throttleVars>>

NextLegacy ==
    \/ LegacyRemoveOutput
    \/ LegacyCheckout
    \/ LegacyBranchScanned
    \/ LegacyReturn
    \/ Next

SpecLegacy == InitLegacy /\ [][NextLegacy]_vars

\* number of times a table was dropped and recreated
CreatesOf(log, table_name) ==
    Cardinality({k \in 1..Len(log) : log[k] = Created(table_name)})

IsPrefixOf(a, b) == Len(a) <= Len(b) /\ SubSeq(b, 1, Len(a)) = a

\* what each table held before the run, if the run keeps it
LegacyBaseA == IF legacy_append THEN <<OldRowA>> ELSE << >>
LegacyBaseB == IF legacy_append THEN <<OldRowB>> ELSE << >>

\* the descriptors of a checkout, in walk order
DescriptorsOf(fs) == SelectSeq(fs, LAMBDA f : EndsWith(f.path, S_dot_xml))

\* descriptor path and provenance of the table-A rows of branches 1..k
RECURSIVE LegacyKeysA(_)
LegacyKeysA(k) ==
    IF k = 0 THEN << >>
    ELSE LET descs == DescriptorsOf(branches[k].files)
         IN  LegacyKeysA(k - 1)
                \o [i \in 1..Len(descs) |-> <<descs[i].path, <<"UHH2", k>>>>]

KeysA(rows) == [i \in 1..Len(rows) |-> <<rows[i].filepath, rows[i].git_src>>]

\* the <<descriptor, directory>> pairs of a checkout
PairsOfFnames(path, fnames) == {<<path, NtupleDirOf(fnames[n])>> : n \in 1..Len(fnames)}
PairsOf(fs) ==
    UNION {PairsOfFnames(fs[i].path, NtupleFilenames(fs[i].lines)) :
           i \in {j \in 1..Len(fs) : EndsWith(fs[j].path, S_dot_xml)}}

KeysB(rows) == [i \in 1..Len(rows) |-> <<rows[i].xml_filepath, rows[i].ntuple_dir>>]

\* every pair of branches 1..k has one row per branch holding it, and there
\* is no other row
RowsOfPairs(k, keys, pairs) ==
    /\ \A i \in 1..k : \A pr \in pairs[i] :
           Cardinality({n \in 1..Len(keys) : keys[n] = pr})
               = Cardinality({j \in 1..k : pr \in pairs[j]})
    /\ \A n \in 1..Len(keys) : \E i \in 1..k : keys[n] \in pairs[i]

RowsOfBranchesB(k, keys) ==
    \E pairs \in {[i \in 1..k |-> PairsOf(branches[i].files)]} : RowsOfPairs(k, keys, pairs)

BetweenBranches == pc \in {"legacy_loop", "legacy_done"}

\* C14: over a list of n >= 1 branches each table is dropped and recreated at
\* most once, only while the first branch is scanned and only when append is
\* false; every later branch appends. While no insertion has failed, both
\* tables hold the rows of every branch scanned so far, after the rows present
\* before the run when append is true.
C14_LegacyBranchesAccumulate ==
    /\ [](\A t \in {"xml", "xml_ntuple_dir"} :
             /\ CreatesOf(sink_log, t) <= 1
             /\ legacy_append => CreatesOf(sink_log, t) = 0)
    /\ [][\A t \in {"xml", "xml_ntuple_dir"} :
             CreatesOf(sink_log', t) > CreatesOf(sink_log, t)
                 => (branch_ind = 0 /\ ~legacy_append)]_vars
    /\ [][branch_ind > 0 => (IsPrefixOf(tableA, tableA') /\ IsPrefixOf(tableB, tableB'))]_vars
    /\ [](BetweenBranches =>
             /\ IsPrefixOf(LegacyBaseA, tableA)
             /\ KeysA(SubSeq(tableA, Len(LegacyBaseA) + 1, Len(tableA)))
                   = LegacyKeysA(branch_ind)
             /\ IsPrefixOf(LegacyBaseB, tableB)
             /\ RowsOfBranchesB(branch_ind,
                                KeysB(SubSeq(tableB, Len(LegacyBaseB) + 1, Len(tableB)))))

\* reached: two branches with the same descriptor, append = false: each table
\* was recreated once and holds one row per branch
C14_Witness ==
    /\ pc = "legacy_done"
    /\ ~legacy_append
    /\ branches = <<[isdir |-> TRUE, files |-> Tree_a], [isdir |-> TRUE, files |-> Tree_a]>>
    /\ CreatesOf(sink_log, "xml") = 1
    /\ CreatesOf(sink_log, "xml_ntuple_dir") = 1
    /\ KeysA(tableA) = <<<<S_a_xml, <<"UHH2", 1>>>>, <<S_a_xml, <<"UHH2", 2>>>>>>
    /\ KeysB(tableB) = <<<<S_a_xml, D_c1_job>>, <<S_a_xml, D_c1_job>>>>

====
